---- MODULE Spec2Model ----
(***************************************************************************)
(* Model of skills/nano-banana/scripts/generate_image.py: one run of       *)
(* main(), from argument parsing to process exit.  The remote generation   *)
(* service, the image codec and the file system are the environment: the   *)
(* service answers each call with an exception or with a response of text  *)
(* and inline-data parts, the codec opens or rejects a payload, a save     *)
(* writes the file or raises.                                              *)
(***************************************************************************)
EXTENDS Integers, Sequences, FiniteSets, TLC

VARIABLES
    pc,                 \* position in main() / generate_and_save()
    args,               \* argparse namespace (line 92)
    environ,            \* os.environ.get("GEMINI_API_KEY")
    parent_ok,          \* whether output_path.parent exists or can be created
    api_key,            \* line 95
    input_images,       \* line 112: the images loaded so far
    max_input_dim,      \* line 119
    output_resolution,  \* line 113
    contents,           \* lines 145 / 149
    pending,            \* the model keys main() has still to run (lines 219 / 227)
    any_success,        \* line 218
    model_key,          \* generate_and_save parameter
    output_path,        \* generate_and_save parameter
    response,           \* line 160
    part_ix,            \* position of the loop of line 173 in response.parts
    image_saved,        \* line 172
    returns,            \* the generate_and_save calls that returned, with their values
    calls,              \* the generate_content calls received by the service
    files,              \* the files at the output paths
    stdout,             \* the "MEDIA:" marker lines printed (line 201)
    stderr,             \* the error messages printed, by kind
    exit_code           \* process exit status

vars == <<pc, args, environ, parent_ok, api_key, input_images, max_input_dim,
          output_resolution, contents, pending, any_success, model_key,
          output_path, response, part_ix, image_saved, returns, calls, files,
          stdout, stderr, exit_code>>

(***************************************************************************)
(* Python values.  An Optional is the empty tuple (None) or a one-tuple.   *)
(***************************************************************************)
None == <<>>
Some(x) == <<x>>
Val(o) == o[1]

\* Truthiness of an Optional[str]: None and "" are falsy (lines 44, 96).
Truthy(o) == o /= None /\ Val(o) /= ""

\* max() of a non-empty finite set of integers (line 128).
Max(S) == CHOOSE m \in S : \A x \in S : x <= m

(***************************************************************************)
(* Bounds of the model.                                                    *)
(***************************************************************************)
\* Longest enumerated list of input image paths (besides the two long lists).
MaxInputs == 2
\* Largest number of parts in one response.
MaxParts == 3

(***************************************************************************)
(* Program constants.                                                      *)
(***************************************************************************)
MaxInputImages == 14
Threshold4K == 3000
Threshold2K == 1500

MODEL_MAP == [pro |-> "gemini-3-pro-image-preview",
              nb2 |-> "gemini-3.1-flash-image-preview"]

MODEL_LABELS == [pro |-> "Nano Banana Pro", nb2 |-> "Nano Banana 2"]

ModelKeys == {"pro", "nb2"}
Resolutions == {"1K", "2K", "4K"}
DefaultResolution == "1K"
AbOrder == <<"pro", "nb2">>

(***************************************************************************)
(* get_api_key: the argument first, then the environment.                  *)
(***************************************************************************)
\* Faulty variant of get_api_key: the environment first.
GetApiKeyEnvFirst(provided_key, env) ==
    IF Truthy(env) THEN env ELSE provided_key

get_api_key(provided_key, env) ==
    IF Truthy(provided_key) THEN provided_key ELSE env

(***************************************************************************)
(* Input images: what PILImage.open(img_path) finds at a path.             *)
(***************************************************************************)
InputFile(w, h) == [loadable |-> TRUE, size |-> <<w, h>>]
Unloadable == [loadable |-> FALSE, size |-> <<0, 0>>]

\* The files the input paths may name: sizes on both sides of the thresholds,
\* the largest side being the width or the height.
InputFiles == {InputFile(640, 480), InputFile(1499, 1000), InputFile(1000, 1500),
               InputFile(2999, 1500), InputFile(1000, 3000), Unloadable}

Repeat(x, n) == [i \in 1..n |-> x]

\* Lists at and just over the limit of 14.
LongInputLists == {Repeat(InputFile(640, 480), MaxInputImages),
                   Repeat(InputFile(640, 480), MaxInputImages + 1),
                   [Repeat(InputFile(640, 480), MaxInputImages + 1)
                       EXCEPT ![1] = Unloadable]}

\* Faulty variant of TooManyInputs: the limit off by one.
TooManyInputsOffByOne(n) == n > MaxInputImages + 1

TooManyInputs(n) == n > MaxInputImages

\* Line 128: max(max_input_dim, width, height).
TrackMaxDim(m, img) == Max({m, img.size[1], img.size[2]})

\* Faulty variant of Classify: exclusive thresholds.
ClassifyExclusive(d) ==
    IF d > Threshold4K THEN "4K"
    ELSE IF d > Threshold2K THEN "2K"
    ELSE "1K"

\* Lines 135-140.
Classify(d) ==
    IF d >= Threshold4K THEN "4K"
    ELSE IF d >= Threshold2K THEN "2K"
    ELSE "1K"

\* Faulty variant of AutoDetect: the explicit resolution is not honoured.
AutoDetectAlways(resolution, d) == d > 0

\* Line 134: auto-detect only when the resolution is the default.
AutoDetect(resolution, d) == resolution = DefaultResolution /\ d > 0

(***************************************************************************)
(* Output paths (lines 213-220, 226).                                      *)
(***************************************************************************)
Filename == [parent |-> "outdir", stem |-> "image", suffix |-> ".png"]

SinglePath == <<Filename.parent, Filename.stem, "", Filename.suffix>>
AbPath(key) == <<Filename.parent, Filename.stem, key, Filename.suffix>>
Paths == {SinglePath} \cup {AbPath(k) : k \in ModelKeys}

(***************************************************************************)
(* Response parts and image payloads.                                      *)
(***************************************************************************)
\* A byte string: an encoded image or bytes the codec cannot open, as they are
\* (raw) or under base64.
Png(px, mode) == [image |-> TRUE, pixels |-> px, mode |-> mode, coding |-> "raw"]
Garbage == [image |-> FALSE, pixels |-> "none", mode |-> "none", coding |-> "raw"]
b64encode(b) == [b EXCEPT !.coding = "base64"]

\* inline_data.data is bytes, or a str holding their base64 encoding.
Bytes(b) == [type |-> "bytes", payload |-> b]
Base64Str(b) == [type |-> "str", payload |-> b64encode(b)]
b64decode(s) == [type |-> "bytes", payload |-> [s.payload EXCEPT !.coding = "raw"]]

\* Lines 180-183.
ImageData(data) == IF data.type = "str" THEN b64decode(data) ELSE data

\* Line 185: PILImage.open raises unless the bytes encode an image.
Opens(image_data) ==
    image_data.payload.coding = "raw" /\ image_data.payload.image

\* Lines 188-195: what is written as PNG, always in RGB mode.
ToRgbPng(image) ==
    IF image.mode = "RGBA"
        THEN [pixels |-> <<image.pixels, "on-white">>, mode |-> "RGB"]
    ELSE IF image.mode = "RGB"
        THEN [pixels |-> <<image.pixels>>, mode |-> "RGB"]
    ELSE [pixels |-> <<image.pixels, "converted">>, mode |-> "RGB"]

Part(text, inline_data) == [text |-> text, inline_data |-> inline_data]

TextPart == Part(Some("commentary"), None)
ImagePartA == Part(None, Some(Bytes(Png("a", "RGB"))))
ImagePartB == Part(None, Some(Base64Str(Png("b", "RGBA"))))
ImagePartC == Part(None, Some(Bytes(Png("c", "P"))))
CorruptPart == Part(None, Some(Bytes(Garbage)))
MixedPart == Part(Some("caption"), Some(Bytes(Png("m", "RGB"))))
EmptyPart == Part(None, None)

PartKinds == {TextPart, ImagePartA, ImagePartB, ImagePartC, CorruptPart,
              MixedPart, EmptyPart}

\* The branch of line 176: the part is handled as an image.
IsImagePart(part) == part.text = None /\ part.inline_data /= None

SeqsUpTo(S, n) == UNION {[1..k -> S] : k \in 0..n}

\* response.parts is a list of parts, or None when there is no candidate.
Responses == {[parts |-> Some(ps)] : ps \in SeqsUpTo(PartKinds, MaxParts)}
                 \cup {[parts |-> None]}

\* The responses of the runs that explore the configuration.
FewResponses == {[parts |-> None], [parts |-> Some(<<>>)],
                 [parts |-> Some(<<ImagePartA>>)],
                 [parts |-> Some(<<TextPart, CorruptPart>>)],
                 [parts |-> Some(<<EmptyPart, ImagePartB>>)]}

\* Faulty variant of Save: an existing file is kept.
SaveKeepFirst(fs, path, image) ==
    IF fs[path] = None THEN [fs EXCEPT ![path] = Some(ToRgbPng(image))] ELSE fs

\* Lines 191-195: save to output_path, replacing what is there.
Save(fs, path, image) == [fs EXCEPT ![path] = Some(ToRgbPng(image))]

(***************************************************************************)
(* The initial states: the command line, the environment and the file      *)
(* system a run starts from.  No output file exists yet.                   *)
(***************************************************************************)
Args(k, m, ab, ins, r) ==
    [prompt |-> "a prompt", filename |-> Filename, model |-> m, ab_test |-> ab,
     input_images |-> ins, resolution |-> r, api_key |-> k]

InitWith(Keys, Envs, Models, AbFlags, InputLists, Res, ParentOk) ==
    /\ args \in {Args(k, m, ab, ins, r) :
                    k \in Keys, m \in Models, ab \in AbFlags,
                    ins \in InputLists, r \in Res}
    /\ environ \in Envs
    /\ parent_ok \in ParentOk
    /\ pc = "get_api_key"
    /\ api_key = None
    /\ input_images = <<>>
    /\ max_input_dim = 0
    /\ output_resolution = DefaultResolution
    /\ contents = None
    /\ pending = <<>>
    /\ any_success = FALSE
    /\ model_key = None
    /\ output_path = None
    /\ response = None
    /\ part_ix = 0
    /\ image_saved = FALSE
    /\ returns = <<>>
    /\ calls = <<>>
    /\ files = [p \in Paths |-> None]
    /\ stdout = <<>>
    /\ stderr = <<>>
    /\ exit_code = 0

\* sys.exit(1) after an error message, or an exception nothing catches.
Exit1(kind, detail) ==
    /\ stderr' = Append(stderr, <<kind, detail>>)
    /\ exit_code' = 1
    /\ pc' = "done"

(***************************************************************************)
(* main(), lines 94-150: configuration.                                    *)
(***************************************************************************)
\* Lines 95-109.
ResolveApiKey ==
    /\ pc = "get_api_key"
    /\ api_key' = get_api_key(args.api_key, environ)
    /\ IF ~Truthy(api_key')
          THEN Exit1("MissingCredential", "")
          ELSE pc' = "inputs" /\ UNCHANGED <<stderr, exit_code>>
    /\ UNCHANGED <<args, environ, parent_ok, input_images, max_input_dim,
                   output_resolution, contents, pending, any_success, model_key,
                   output_path, response, part_ix, image_saved, returns, calls,
                   files, stdout>>

\* Lines 112-119.
CheckInputs ==
    /\ pc = "inputs"
    /\ input_images' = <<>>
    /\ output_resolution' = args.resolution
    /\ max_input_dim' = 0
    /\ IF args.input_images /= <<>> /\ TooManyInputs(Len(args.input_images))
          THEN Exit1("TooManyInputs", "")
          ELSE /\ pc' = IF args.input_images /= <<>> THEN "load" ELSE "contents"
               /\ UNCHANGED <<stderr, exit_code>>
    /\ UNCHANGED <<args, environ, parent_ok, api_key, contents, pending,
                   any_success, model_key, output_path, response, part_ix,
                   image_saved, returns, calls, files, stdout>>

\* Lines 120-131: one turn of the loop over args.input_images.
LoadInputImage ==
    /\ pc = "load"
    /\ Len(input_images) < Len(args.input_images)
    /\ LET img == args.input_images[Len(input_images) + 1]
       IN  IF img.loadable
              THEN /\ input_images' = Append(input_images, img)
                   /\ max_input_dim' = TrackMaxDim(max_input_dim, img)
                   /\ UNCHANGED <<pc, stderr, exit_code>>
              ELSE /\ Exit1("InputDecodeError", "")
                   /\ UNCHANGED <<input_images, max_input_dim>>
    /\ UNCHANGED <<args, environ, parent_ok, api_key, output_resolution,
                   contents, pending, any_success, model_key, output_path,
                   response, part_ix, image_saved, returns, calls, files, stdout>>

\* Lines 133-141, once every input image is loaded.
AutoDetectResolution ==
    /\ pc = "load"
    /\ Len(input_images) = Len(args.input_images)
    /\ output_resolution' =
          IF AutoDetect(args.resolution, max_input_dim)
             THEN Classify(max_input_dim)
             ELSE output_resolution
    /\ pc' = "contents"
    /\ UNCHANGED <<args, environ, parent_ok, api_key, input_images,
                   max_input_dim, contents, pending, any_success, model_key,
                   output_path, response, part_ix, image_saved, returns, calls,
                   files, stdout, stderr, exit_code>>

\* Lines 143-150 and 212-219 / 226: the payload and the models to run.
BuildContents ==
    /\ pc = "contents"
    /\ contents' = Some([images |-> input_images, prompt |-> args.prompt])
    /\ pending' = IF args.ab_test THEN AbOrder ELSE <<args.model>>
    /\ any_success' = FALSE
    /\ pc' = "dispatch"
    /\ UNCHANGED <<args, environ, parent_ok, api_key, input_images,
                   max_input_dim, output_resolution, model_key, output_path,
                   response, part_ix, image_saved, returns, calls, files,
                   stdout, stderr, exit_code>>

(***************************************************************************)
(* generate_and_save(model_key, output_path), lines 152-209.               *)
(***************************************************************************)
Label == MODEL_LABELS[Val(model_key)]
Parts == Val(Val(response).parts)
CurrentPart == Parts[part_ix]

\* Lines 219-221 / 226-227 and 154-158: the call, and the mkdir of the parent
\* directory, which is outside the try block: what it raises ends the process
\* with a traceback and exit status 1.  The output paths of one run share the
\* parent of args.filename (lines 216, 220), so the mkdir of every invocation
\* of the run has the one outcome parent_ok.
CallGenerateAndSave ==
    /\ pc = "dispatch"
    /\ pending /= <<>>
    /\ model_key' = Some(Head(pending))
    /\ pending' = Tail(pending)
    /\ output_path' = Some(IF args.ab_test THEN AbPath(Head(pending)) ELSE SinglePath)
    /\ IF parent_ok
          THEN pc' = "request" /\ UNCHANGED <<stderr, exit_code>>
          ELSE Exit1("Traceback", "mkdir")
    /\ UNCHANGED <<args, environ, parent_ok, api_key, input_images,
                   max_input_dim, output_resolution, contents, any_success,
                   response, part_ix, image_saved, returns, calls, files, stdout>>

\* Lines 160-169: the request the service receives.
Request ==
    [model |-> MODEL_MAP[Val(model_key)], contents |-> Val(contents),
     image_size |-> output_resolution]

\* Lines 160-172: the call returns a response.
GenerateContent(Answers) ==
    /\ pc = "request"
    /\ calls' = Append(calls, Request)
    /\ \E r \in Answers : response' = Some(r)
    /\ image_saved' = FALSE
    /\ part_ix' = 1
    /\ pc' = "parts"
    /\ UNCHANGED <<args, environ, parent_ok, api_key, input_images,
                   max_input_dim, output_resolution, contents, pending,
                   any_success, model_key, output_path, returns, files, stdout,
                   stderr, exit_code>>

\* Line 160: the call raises.
GenerateContentRaises ==
    /\ pc = "request"
    /\ calls' = Append(calls, Request)
    /\ pc' = "except"
    /\ UNCHANGED <<args, environ, parent_ok, api_key, input_images,
                   max_input_dim, output_resolution, contents, pending,
                   any_success, model_key, output_path, response, part_ix,
                   image_saved, returns, files, stdout, stderr, exit_code>>

FrameUnchanged ==
    UNCHANGED <<args, environ, parent_ok, api_key, input_images, max_input_dim,
                output_resolution, contents, pending, any_success, model_key,
                output_path, response, returns, calls, stdout, stderr, exit_code>>

\* Line 173 with response.parts None: the for statement raises TypeError.
IterateNoParts ==
    /\ pc = "parts"
    /\ Val(response).parts = None
    /\ pc' = "except"
    /\ UNCHANGED <<part_ix, image_saved, files>>
    /\ FrameUnchanged

InLoop == pc = "parts" /\ Val(response).parts /= None /\ part_ix <= Len(Parts)

\* Lines 174-175: a part with text is printed; its inline data, if any, is not read.
PrintTextPart ==
    /\ InLoop
    /\ CurrentPart.text /= None
    /\ part_ix' = part_ix + 1
    /\ UNCHANGED <<pc, image_saved, files>>
    /\ FrameUnchanged

\* Line 176 false: a part with neither text nor inline data.
SkipPart ==
    /\ InLoop
    /\ CurrentPart.text = None /\ CurrentPart.inline_data = None
    /\ part_ix' = part_ix + 1
    /\ UNCHANGED <<pc, image_saved, files>>
    /\ FrameUnchanged

\* Lines 176-196: the image is opened and saved at output_path.
SaveImagePart ==
    /\ InLoop
    /\ IsImagePart(CurrentPart)
    /\ LET image_data == ImageData(Val(CurrentPart.inline_data))
       IN  /\ Opens(image_data)
           /\ files' = Save(files, Val(output_path), image_data.payload)
    /\ image_saved' = TRUE
    /\ part_ix' = part_ix + 1
    /\ UNCHANGED pc
    /\ FrameUnchanged

\* Line 185: PILImage.open raises on bytes that are no image.
OpenRaises ==
    /\ InLoop
    /\ IsImagePart(CurrentPart)
    /\ ~Opens(ImageData(Val(CurrentPart.inline_data)))
    /\ pc' = "except"
    /\ UNCHANGED <<part_ix, image_saved, files>>
    /\ FrameUnchanged

\* Lines 191-195: save raises (no space, no permission); the file is as it was.
SaveRaises ==
    /\ InLoop
    /\ IsImagePart(CurrentPart)
    /\ Opens(ImageData(Val(CurrentPart.inline_data)))
    /\ pc' = "except"
    /\ UNCHANGED <<part_ix, image_saved, files>>
    /\ FrameUnchanged

\* Lines 198-205, after the loop.
FinishParts ==
    /\ pc = "parts"
    /\ Val(response).parts /= None
    /\ part_ix > Len(Parts)
    /\ IF image_saved
          THEN /\ stdout' = Append(stdout, Val(output_path))
               /\ returns' = Append(returns, [model_key |-> Val(model_key), ok |-> TRUE])
               /\ UNCHANGED stderr
          ELSE /\ stderr' = Append(stderr, <<"NoImage", Label>>)
               /\ returns' = Append(returns, [model_key |-> Val(model_key), ok |-> FALSE])
               /\ UNCHANGED stdout
    /\ pc' = "return"
    /\ UNCHANGED <<args, environ, parent_ok, api_key, input_images,
                   max_input_dim, output_resolution, contents, pending,
                   any_success, model_key, output_path, response, part_ix,
                   image_saved, calls, files, exit_code>>

\* Lines 207-209.
HandleException ==
    /\ pc = "except"
    /\ stderr' = Append(stderr, <<"GenerationError", Label>>)
    /\ returns' = Append(returns, [model_key |-> Val(model_key), ok |-> FALSE])
    /\ pc' = "return"
    /\ UNCHANGED <<args, environ, parent_ok, api_key, input_images,
                   max_input_dim, output_resolution, contents, pending,
                   any_success, model_key, output_path, response, part_ix,
                   image_saved, calls, files, stdout, exit_code>>

(***************************************************************************)
(* main(), lines 212-228: what is done with the returned value.            *)
(***************************************************************************)
Returned == returns[Len(returns)].ok

\* Faulty variant of AbAccumulate: the last result replaces the others.
AbAccumulateLast(any, ok) == ok

\* Lines 221-222.
AbAccumulate(any, ok) == IF ok THEN TRUE ELSE any

\* Faulty variant of SingleExitCode: the failure is not reported.
SingleExitCodeZero(ok) == 0

\* Lines 227-228.
SingleExitCode(ok) == IF ~ok THEN 1 ELSE 0

\* Lines 223-224.
AbExitCode(any) == IF ~any THEN 1 ELSE 0

\* The frame of generate_and_save is gone once it has returned.
DropFrame ==
    /\ model_key' = None
    /\ output_path' = None
    /\ response' = None
    /\ part_ix' = 0
    /\ image_saved' = FALSE

\* Lines 221-222: back in the loop of comparison mode.
ReturnToAbLoop ==
    /\ pc = "return"
    /\ args.ab_test
    /\ any_success' = AbAccumulate(any_success, Returned)
    /\ DropFrame
    /\ pc' = "dispatch"
    /\ UNCHANGED <<args, environ, parent_ok, api_key, input_images,
                   max_input_dim, output_resolution, contents, pending, returns,
                   calls, files, stdout, stderr, exit_code>>

\* Lines 223-224: the loop is over.
FinishAbTest ==
    /\ pc = "dispatch"
    /\ pending = <<>>
    /\ args.ab_test
    /\ exit_code' = AbExitCode(any_success)
    /\ pc' = "done"
    /\ UNCHANGED <<args, environ, parent_ok, api_key, input_images,
                   max_input_dim, output_resolution, contents, pending,
                   any_success, model_key, output_path, response, part_ix,
                   image_saved, returns, calls, files, stdout, stderr>>

\* Lines 227-228.
ReturnToSingle ==
    /\ pc = "return"
    /\ ~args.ab_test
    /\ exit_code' = SingleExitCode(Returned)
    /\ DropFrame
    /\ pc' = "done"
    /\ UNCHANGED <<args, environ, parent_ok, api_key, input_images,
                   max_input_dim, output_resolution, contents, pending,
                   any_success, returns, calls, files, stdout, stderr>>

(***************************************************************************)
(* The specifications.  Spec explores the generation and the responses of  *)
(* the service from a few configurations; SpecCfg explores the             *)
(* configurations (keys, input lists, resolutions) with a few responses.   *)
(***************************************************************************)
Configure ==
    \/ ResolveApiKey
    \/ CheckInputs
    \/ LoadInputImage
    \/ AutoDetectResolution
    \/ BuildContents

Generate(Answers) ==
    \/ CallGenerateAndSave
    \/ GenerateContent(Answers)
    \/ GenerateContentRaises
    \/ IterateNoParts
    \/ PrintTextPart
    \/ SkipPart
    \/ SaveImagePart
    \/ OpenRaises
    \/ SaveRaises
    \/ FinishParts
    \/ HandleException
    \/ ReturnToAbLoop
    \/ FinishAbTest
    \/ ReturnToSingle

Init ==
    InitWith({None, Some("ARG-KEY")}, {None}, ModelKeys, BOOLEAN,
             {<<>>, <<InputFile(1000, 1500)>>, <<Unloadable>>,
              Repeat(InputFile(640, 480), MaxInputImages + 1)},
             {DefaultResolution}, BOOLEAN)

Next == Configure \/ Generate(Responses)

Spec == Init /\ [][Next]_vars

ApiKeys == {None, Some(""), Some("ARG-KEY")}
EnvKeys == {None, Some(""), Some("ENV-KEY")}

InitCfg ==
    \/ InitWith(ApiKeys, EnvKeys, {"nb2"}, BOOLEAN,
                {<<>>, <<InputFile(1000, 1500)>>, <<Unloadable>>,
                 Repeat(InputFile(640, 480), MaxInputImages + 1)},
                {DefaultResolution}, {TRUE})
    \/ InitWith({Some("ARG-KEY")}, {None}, ModelKeys, BOOLEAN,
                SeqsUpTo(InputFiles, MaxInputs) \cup LongInputLists,
                Resolutions, BOOLEAN)

NextCfg == Configure \/ Generate(FewResponses)

SpecCfg == InitCfg /\ [][NextCfg]_vars

(***************************************************************************)
(* Vocabulary of the properties.                                           *)
(***************************************************************************)
Done == pc = "done"
\* The configuration stage is behind: main() has built the payload.
Configured == contents /= None
AnyReturnedOk == \E i \in 1..Len(returns) : returns[i].ok
NoFileWritten == \A p \in Paths : files[p] = None
CalledModels == [i \in 1..Len(calls) |-> calls[i].model]
ImagePartIxs(n) == {i \in 1..n : IsImagePart(Parts[i])}
PixelsOf(part) == Val(part.inline_data).payload.pixels
AllDims == UNION {{args.input_images[i].size[1], args.input_images[i].size[2]} :
                     i \in 1..Len(args.input_images)}

\* C1: in comparison mode the process exits with code 1 if and only if no
\* invocation returned success (both failed to produce an image), and with
\* code 0 as soon as one of the two succeeded.
C1_AbExitCode ==
    (Done /\ args.ab_test) =>
        /\ exit_code \in {0, 1}
        /\ exit_code = 1 <=> ~AnyReturnedOk
        /\ AnyReturnedOk => exit_code = 0

C1_Witness ==
    /\ Done /\ args.ab_test /\ Len(returns) = 2
    /\ returns[1].ok /\ ~returns[2].ok
    /\ exit_code = 0

\* C2 (as claimed): in comparison mode, once the configuration is done, both
\* models are called exactly once each, pro then nb2, however pro's
\* invocation fails.
C2_BothAttemptedInOrder ==
    (Done /\ args.ab_test /\ Configured) =>
        CalledModels = <<MODEL_MAP["pro"], MODEL_MAP["nb2"]>>

C5_NothingWrittenOnFailure ==
    /\ pc = "return" => (Returned <=> files[Val(output_path)] /= None)
    /\ (Done /\ ~AnyReturnedOk) => NoFileWritten

\* C9 (as claimed): an invocation whose response has no image part fails,
\* writes no file and prints no marker, whatever text it holds; and an
\* invocation succeeds if and only if at least one part was processed as an
\* image and saved.
C9_SucceedsIffImageSaved ==
    pc = "return" =>
        /\ (response /= None /\ Val(response).parts /= None
               /\ ImagePartIxs(Len(Parts)) = {}) =>
              /\ ~Returned
              /\ files[Val(output_path)] = None
              /\ \A i \in 1..Len(stdout) : stdout[i] /= Val(output_path)
        /\ Returned <=> image_saved

\* C10: the image parts of a response are saved in response order at the one
\* output path, each replacing the previous: while the parts are processed
\* the file holds the last image part passed so far (none if there was none),
\* so that after a successful invocation it holds the last image part of the
\* response, in RGB; and no file exists but at the output paths of the
\* invocations made.
C10_LastImagePartWins ==
    ((pc = "parts" /\ Val(response).parts /= None) \/ (pc = "return" /\ Returned)) =>
        LET seen == ImagePartIxs(part_ix - 1)
            file == files[Val(output_path)]
        IN  /\ image_saved <=> seen /= {}
            /\ IF seen = {}
                  THEN file = None
                  ELSE /\ file /= None
                       /\ Val(file).mode = "RGB"
                       /\ Val(file).pixels[1] = PixelsOf(Parts[Max(seen)])
            /\ \A p \in Paths :
                  files[p] /= None =>
                     \/ p = Val(output_path)
                     \/ \E i \in 1..Len(returns) :
                           p = AbPath(returns[i].model_key) /\ args.ab_test

C10_Witness ==
    /\ pc = "return" /\ Returned
    /\ Cardinality(ImagePartIxs(Len(Parts))) >= 2
    /\ PixelsOf(Parts[Max(ImagePartIxs(Len(Parts)))])
          /= PixelsOf(Parts[CHOOSE i \in ImagePartIxs(Len(Parts)) : TRUE])
    /\ Val(files[Val(output_path)]).pixels[1]
          = PixelsOf(Parts[Max(ImagePartIxs(Len(Parts)))])

(***************************************************************************)
(* Properties of the configuration stage, checked under SpecCfg.           *)
(***************************************************************************)
NoKeyGiven == ~Truthy(args.api_key) /\ ~Truthy(environ)
OverLimit == Len(args.input_images) > 14
BadInputs == {i \in 1..Len(args.input_images) : ~args.input_images[i].loadable}
ConfigErrorKinds == {"MissingCredential", "TooManyInputs", "InputDecodeError"}
EndedInConfigError ==
    Done /\ stderr /= <<>> /\ stderr[Len(stderr)][1] \in ConfigErrorKinds
Rank(r) == CASE r = "1K" -> 1 [] r = "2K" -> 2 [] r = "4K" -> 3

\* C3: a run with no API key from either source, with more than 14 input
\* images or with an input image that does not load never makes a generation
\* call and never writes an output file, and ends with exit code 1 on the
\* one configuration error; every run that ends in a configuration error has
\* made no call and written no file; and a load failure stops the run at the
\* first input that fails, the inputs after it being left unprocessed.
C3_ConfigErrorsAbortEarly ==
    /\ (NoKeyGiven \/ OverLimit \/ BadInputs /= {}) =>
          /\ calls = <<>> /\ NoFileWritten
          /\ Done => (exit_code = 1 /\ Len(stderr) = 1 /\ EndedInConfigError)
    /\ EndedInConfigError => (calls = <<>> /\ NoFileWritten /\ exit_code = 1)
    /\ (EndedInConfigError /\ stderr[1][1] = "InputDecodeError") =>
          /\ BadInputs /= {}
          /\ input_images =
                SubSeq(args.input_images, 1,
                       (CHOOSE i \in BadInputs : \A j \in BadInputs : i <= j) - 1)

C3_Witness ==
    /\ EndedInConfigError /\ stderr[1][1] = "InputDecodeError"
    /\ Len(args.input_images) = 2 /\ BadInputs = {1}
    /\ input_images = <<>> /\ calls = <<>> /\ exit_code = 1

\* C6: with the resolution left at its default and at least one input image
\* loaded, the effective resolution (the one every call carries) is decided
\* by d, the largest width or height over all input images: 4K iff
\* d >= 3000, 2K iff 1500 <= d < 3000, 1K iff d < 1500; and the tier never
\* decreases when d grows: no input image alone would get a higher tier than
\* the one chosen for all of them.
C6_AutoResolution ==
    /\ (Configured /\ args.resolution = "1K" /\ input_images /= <<>>) =>
          LET d == Max(AllDims)
          IN  /\ output_resolution = "4K" <=> d >= 3000
              /\ output_resolution = "2K" <=> (1500 <= d /\ d < 3000)
              /\ output_resolution = "1K" <=> d < 1500
              /\ \A i \in 1..Len(calls) : calls[i].image_size = output_resolution
    /\ (Configured /\ args.resolution = "1K") =>
          \A i \in 1..Len(input_images) :
              LET di == Max({input_images[i].size[1], input_images[i].size[2]})
              IN  /\ Rank(Classify(di)) <= Rank(output_resolution)
                  /\ di = Max(AllDims) => Classify(di) = output_resolution

C6_Witness ==
    /\ Configured /\ args.resolution = "1K" /\ Len(input_images) = 2
    /\ input_images[1].size = <<1000, 3000>> /\ input_images[2].size = <<1499, 1000>>
    /\ calls /= <<>> /\ calls[1].image_size = "4K"

\* C7: when the user passes 2K or 4K, every generation call carries exactly
\* that resolution whatever the input images are; and with no input image
\* and no override every call carries 1K.
C7_ExplicitResolution ==
    \A i \in 1..Len(calls) :
        /\ args.resolution \in {"2K", "4K"} => calls[i].image_size = args.resolution
        /\ (args.input_images = <<>> /\ args.resolution = "1K") =>
              calls[i].image_size = "1K"

C7_Witness ==
    /\ Len(calls) = 2 /\ args.resolution = "2K"
    /\ input_images = <<InputFile(1000, 3000)>>
    /\ calls[1].image_size = "2K" /\ calls[2].image_size = "2K"

\* C8 (as claimed): in a run that goes on with a key, an explicit --api-key
\* argument is the key used whatever the environment holds, and the
\* environment's value is used only when no argument is given.
C8_ExplicitKeyAlwaysUsed ==
    (pc /= "get_api_key" /\ Truthy(api_key)) =>
        /\ args.api_key /= None => api_key = args.api_key
        /\ args.api_key = None => api_key = environ

\* C8 (amended): once the key is resolved, a non-empty explicit --api-key
\* argument is the key used whatever the environment holds; the
\* environment's value is the key used exactly when the argument is absent
\* or empty.
C8_NonEmptyExplicitKeyUsed ==
    pc /= "get_api_key" =>
        /\ Truthy(args.api_key) => api_key = args.api_key
        /\ ~Truthy(args.api_key) => api_key = environ

C8_Witness ==
    /\ pc /= "get_api_key"
    /\ args.api_key = Some("ARG-KEY") /\ environ = Some("ENV-KEY")
    /\ api_key = Some("ARG-KEY") /\ calls /= <<>>

====
